---- MODULE Spec2Model ----
(***************************************************************************)
(* A model of featuretools' PandasBackend                                  *)
(* (featuretools/computational_backends/pandas_backend.py).                *)
(*                                                                         *)
(* A DataFrame is a record [columns, rows]: columns is the sequence of     *)
(* column names, rows the sequence of rows in their existing order; a row  *)
(* is [idx, c] with idx its index label and c the function from column     *)
(* name to cell.  Cells are integers; NaN is the unset cell (np.nan).      *)
(* A boolean cell is 1 (True) or 0 (False).                                *)
(*                                                                         *)
(* The entity set has two entities: the parent "orders" (index order_id,   *)
(* column placed) and the child "order_items" (index item_id, link column  *)
(* order_id, columns amount, flag, time; time is the time index).          *)
(***************************************************************************)
EXTENDS Integers, Sequences, FiniteSets, TLC

\* ------------------------------------------------------------------ bounds
\* instance ids of "orders" are 1..MaxOrders
MaxOrders == 2
\* "order_items" holds at most MaxItems rows, with ids 1..MaxItems
MaxItems == 3
\* a use_previous window carries a value in 0..MaxWindow
MaxWindow == 2

\* np.nan: the unset cell
NaN == -1

\* the cutoff time of the batch: every item's time is before it
TimeLast == MaxItems + 1
\* the value injected by precalculated features: above every computed value
PrecalcValue == 100 * (MaxItems + 1)

VARIABLES
    entityset,              \* self.entityset: the data of the two entities
    features,               \* self.features: the requested features, in order
    feature_tree,           \* self.feature_tree: the dependency order
    window,                 \* the value carried by the use_previous window
    pc,                     \* position in calculate_all_features
    instance_ids,           \* self.instance_ids
    precalculated_features, \* the argument of the call
    ordered_entities,       \* local of calculate_all_features
    eframes_by_filter,      \* local: filter entity -> (entity -> DataFrame)
    finished_entity_ids,    \* local
    filter_i,               \* position of the loop over ordered_entities
    group_i,                \* position of the loop over the feature groups
    returned,               \* the DataFrame returned, or None
    raised,                 \* the exception raised, "" when none
    slice_calls,            \* history: calls of get_pandas_data_slice
    handlers,               \* history: the calculators dispatched, in order
    invoked                 \* history: features whose function was invoked

vars == <<entityset, features, feature_tree, window, pc, instance_ids,
          precalculated_features, ordered_entities, eframes_by_filter,
          finished_entity_ids, filter_i, group_i, returned, raised,
          slice_calls, handlers, invoked>>

\* ----------------------------------------------------------------- helpers
Range(s) == {s[i] : i \in DOMAIN s}

Max2(a, b) == IF a >= b THEN a ELSE b

RECURSIVE Sum(_)
Sum(s) == IF s = <<>> THEN 0 ELSE Head(s) + Sum(Tail(s))

RECURSIVE Pow2(_)
Pow2(n) == IF n = 0 THEN 1 ELSE 2 * Pow2(n - 1)

\* the elements of a set of integers, ascending
RECURSIVE SortedSeq(_)
SortedSeq(S) ==
    IF S = {} THEN <<>>
    ELSE LET m == CHOOSE x \in S : \A y \in S : x <= y
         IN  <<m>> \o SortedSeq(S \ {m})

None == [columns |-> <<"None">>, rows |-> <<>>]

EmptyDict == [e \in {} |-> None]

\* ---------------------------------------------------------------- pandas
\* frame[c].values
ColumnValues(frame, c) == [i \in DOMAIN frame.rows |-> frame.rows[i].c[c]]

\* the index labels of a frame
IndexLabels(frame) == {frame.rows[i].idx : i \in DOMAIN frame.rows}

\* frame[name] = values  (a new column goes last; an existing one is overwritten)
SetColumn(frame, name, values) ==
    LET cols == IF name \in Range(frame.columns) THEN frame.columns
                ELSE Append(frame.columns, name)
    IN  [columns |-> cols,
         rows |-> [i \in DOMAIN frame.rows |->
                     [idx |-> frame.rows[i].idx,
                      c |-> [k \in Range(cols) |->
                               IF k = name THEN values[i]
                               ELSE frame.rows[i].c[k]]]]]

\* the rows of pd.merge: each left row with every right row whose index label
\* equals the left row's key (the column left_on, or the left index label when
\* left_on is ""); a left row without a match is kept with unset right
\* columns under how = "left" and dropped under how = "inner"
RECURSIVE MergeRows(_, _, _, _)
MergeRows(lrows, right, left_on, how) ==
    IF lrows = <<>> THEN <<>>
    ELSE LET r == Head(lrows)
             key == IF left_on = "" THEN r.idx ELSE r.c[left_on]
             matches == SelectSeq(right.rows, LAMBDA x : x.idx = key)
             joined ==
                 IF matches = <<>>
                 THEN IF how = "left"
                      THEN << [idx |-> r.idx,
                               c |-> r.c @@ [k \in Range(right.columns) |-> NaN]] >>
                      ELSE <<>>
                 ELSE [j \in DOMAIN matches |->
                         [idx |-> r.idx, c |-> r.c @@ matches[j].c]]
         IN  joined \o MergeRows(Tail(lrows), right, left_on, how)

\* pd.merge(left, right, left_on=left_on | left_index=True, right_index=True, how=how)
pd_merge(left, right, left_on, how) ==
    [columns |-> left.columns \o right.columns,
     rows |-> MergeRows(left.rows, right, left_on, how)]

\* df.iloc[-n:]: Python's slice from -n to the end; -0 is 0, the whole frame
iloc_last(rows, n) ==
    IF n = 0 THEN rows
    ELSE SubSeq(rows, Max2(1, Len(rows) - n + 1), Len(rows))

\* ------------------------------------------------------------- entity set
\* the relationships of the entity set: order_items.order_id -> orders.order_id
Relationships ==
    { [child_entity |-> "order_items", child_variable |-> "order_id",
       parent_entity |-> "orders", parent_variable |-> "order_id"] }

\* entity.index
EntityIndex(entity_id) == IF entity_id = "orders" THEN "order_id" ELSE "item_id"

\* entity.time_index ("" is None)
EntityTimeIndex(entity_id) == IF entity_id = "order_items" THEN "time" ELSE ""

\* entityset.find_forward_path(start, goal): the hops from a child to a parent
find_forward_path(start_entity_id, goal_entity_id) ==
    LET hops == {r \in Relationships : r.child_entity = start_entity_id
                                       /\ r.parent_entity = goal_entity_id}
    IN  IF hops = {} THEN <<>> ELSE << CHOOSE r \in hops : TRUE >>

\* entityset.find_backward_path(start, goal): the hops from a parent to a
\* descendant; the empty path when goal cannot be reached backward
find_backward_path(start_entity_id, goal_entity_id) ==
    LET hops == {r \in Relationships : r.parent_entity = start_entity_id
                                       /\ r.child_entity = goal_entity_id}
    IN  IF hops = {} THEN <<>> ELSE << CHOOSE r \in hops : TRUE >>

\* Relationship._get_link_variable_name(path)
get_link_variable_name(path) == path[1].child_variable

\* the dtype of a column of an entity's frame
DType(entity_id, column) ==
    IF entity_id = "order_items" /\ column = "order_id"
    THEN entityset.link_dtype ELSE "int64"

\* the frame of "orders" restricted to the rows with an id in ids
OrdersFrame(ids) ==
    LET present == SortedSeq(entityset.orders \cap ids)
    IN  [columns |-> <<"order_id", "placed">>,
         rows |-> [i \in DOMAIN present |->
                     [idx |-> present[i],
                      c |-> [order_id |-> present[i], placed |-> present[i]]]]]

\* the row of item k: its amount is 2^(k-1), its time is k
ItemRow(k) ==
    [idx |-> k,
     c |-> [item_id |-> k, order_id |-> entityset.items[k].order_id,
            amount |-> Pow2(k - 1), flag |-> entityset.items[k].flag,
            time |-> k]]

\* the frame of "order_items" restricted to the items in keep, in arrival order
ItemsFrame(keep) ==
    LET present == SortedSeq(DOMAIN entityset.items \cap keep)
    IN  [columns |-> <<"item_id", "order_id", "amount", "flag", "time">>,
         rows |-> [i \in DOMAIN present |-> ItemRow(present[i])]]

\* entityset.get_pandas_data_slice: for each filter entity, the frames of the
\* filter entity and of its descendants, restricted to the rows related to
\* the requested instances of the target entity
get_pandas_data_slice(filter_entity_ids, index_eid, instances) ==
    LET ids == Range(instances)
        \* the instances of the filter entity related to the batch
        related(filter_eid) ==
            IF filter_eid = index_eid THEN ids
            ELSE {entityset.items[k].order_id : k \in DOMAIN entityset.items \cap ids}
        frames(filter_eid) ==
            IF filter_eid = "orders"
            THEN [e \in {"orders", "order_items"} |->
                    IF e = "orders" THEN OrdersFrame(related(filter_eid))
                    ELSE ItemsFrame({k \in DOMAIN entityset.items :
                             entityset.items[k].order_id \in related(filter_eid)})]
            ELSE [e \in {"order_items"} |-> ItemsFrame(related(filter_eid))]
    IN  [f \in Range(filter_entity_ids) |-> frames(f)]

\* --------------------------------------------------------------- features
NoWindow == [unit |-> "none", value |-> 0]

\* the fields every feature has; "" is None
PrimitiveBase ==
    [kind |-> "Identity", entity |-> "orders", base_features |-> <<>>,
     parent_entity |-> "", where |-> "", use_previous |-> NoWindow,
     default_value |-> NaN, func |-> "",
     uses_calc_time |-> FALSE, expanding |-> FALSE]

ItemIdentity == [PrimitiveBase EXCEPT !.entity = "order_items"]

SumAmount ==
    [PrimitiveBase EXCEPT !.kind = "Aggregation", !.base_features = <<"amount">>,
                          !.default_value = 0, !.func = "SUM"]

\* the feature with the given output name (get_name())
Feature(name) ==
    CASE name = "placed" -> PrimitiveBase
      [] name \in {"item_id", "order_id", "amount", "flag", "time"} -> ItemIdentity
      [] name = "CUM_SUM(placed)" ->
            [PrimitiveBase EXCEPT !.kind = "Transform", !.base_features = <<"placed">>,
                                  !.func = "CUM_SUM"]
      [] name = "TIME_SINCE(placed)" ->
            [PrimitiveBase EXCEPT !.kind = "Transform", !.base_features = <<"placed">>,
                                  !.func = "TIME_SINCE", !.uses_calc_time = TRUE]
      [] name = "CUM_SUM(amount)" ->
            [ItemIdentity EXCEPT !.kind = "Transform", !.base_features = <<"amount">>,
                                 !.func = "CUM_SUM"]
      [] name = "orders.placed" ->
            [ItemIdentity EXCEPT !.kind = "Direct", !.base_features = <<"placed">>,
                                 !.parent_entity = "orders"]
      [] name = "orders.COUNT(order_items)" ->
            [ItemIdentity EXCEPT !.kind = "Direct",
                                 !.base_features = <<"COUNT(order_items)">>,
                                 !.parent_entity = "orders", !.default_value = 0]
      [] name = "SUM(order_items.amount)" -> SumAmount
      [] name = "COUNT(order_items)" ->
            [SumAmount EXCEPT !.base_features = <<"item_id">>, !.func = "COUNT"]
      [] name = "TIME_SINCE_LAST(order_items.time)" ->
            [SumAmount EXCEPT !.base_features = <<"time">>, !.default_value = NaN,
                              !.func = "TIME_SINCE_LAST", !.uses_calc_time = TRUE]
      [] name = "SUM(order_items.amount WHERE flag)" ->
            [SumAmount EXCEPT !.where = "flag"]
      [] name = "SUM(order_items.amount WHERE flag, Last N)" ->
            [SumAmount EXCEPT !.where = "flag",
                              !.use_previous = [unit |-> "observations", value |-> window]]
      [] name = "SUM(order_items.amount, Previous D)" ->
            [SumAmount EXCEPT !.use_previous = [unit |-> "absolute", value |-> window]]
      [] OTHER -> [PrimitiveBase EXCEPT !.kind = "Other"]

\* f.get_function() of an aggregation primitive, applied to the columns of one
\* group of child rows (time is passed when the feature uses the calc time)
ApplyAggregation(func, args, time) ==
    CASE func = "SUM" -> Sum(args[1])
      [] func = "COUNT" -> Len(args[1])
      [] func = "TIME_SINCE_LAST" -> time - args[1][Len(args[1])]
      [] OTHER -> NaN

\* f.get_function() of a transform primitive, applied to whole columns
ApplyTransform(func, args, time) ==
    CASE func = "CUM_SUM" -> [i \in DOMAIN args[1] |-> Sum(SubSeq(args[1], 1, i))]
      [] func = "TIME_SINCE" -> [i \in DOMAIN args[1] |-> time - args[1][i]]
      [] OTHER -> [i \in DOMAIN args[1] |-> NaN]

\* ----------------------------------------------------------- feature tree
\* FeatureTree(entityset, features): for each supported request, the entities
\* in dependency order (parents first, the target last) and, per entity, the
\* feature groups in dependency order.  ignored_entities is the order
\* FeatureTree(entityset, features, ignored=...) gives when the request can be
\* made with its parent entity ignored (<<>> when it cannot).
Requests ==
    << [features |-> <<"SUM(order_items.amount)", "TIME_SINCE_LAST(order_items.time)">>,
        ordered_entities |-> <<"orders">>,
        ordered_feature_groups |->
            [e \in {"orders"} |-> << <<"amount", "time">>,
                                     <<"SUM(order_items.amount)",
                                       "TIME_SINCE_LAST(order_items.time)">> >>],
        ignored_entities |-> <<>>,
        precalculated |-> <<"orders", "SUM(order_items.amount)">>],
       [features |-> <<"SUM(order_items.amount WHERE flag)">>,
        ordered_entities |-> <<"orders">>,
        ordered_feature_groups |->
            [e \in {"orders"} |-> << <<"amount", "flag">>,
                                     <<"SUM(order_items.amount WHERE flag)">> >>],
        ignored_entities |-> <<>>,
        precalculated |-> <<>>],
       [features |-> <<"SUM(order_items.amount WHERE flag, Last N)">>,
        ordered_entities |-> <<"orders">>,
        ordered_feature_groups |->
            [e \in {"orders"} |-> << <<"amount", "flag">>,
                                     <<"SUM(order_items.amount WHERE flag, Last N)">> >>],
        ignored_entities |-> <<>>,
        precalculated |-> <<>>],
       [features |-> <<"SUM(order_items.amount, Previous D)">>,
        ordered_entities |-> <<"orders">>,
        ordered_feature_groups |->
            [e \in {"orders"} |-> << <<"amount">>,
                                     <<"SUM(order_items.amount, Previous D)">> >>],
        ignored_entities |-> <<>>,
        precalculated |-> <<>>],
       [features |-> <<"placed", "CUM_SUM(placed)", "TIME_SINCE(placed)">>,
        ordered_entities |-> <<"orders">>,
        ordered_feature_groups |->
            [e \in {"orders"} |-> << <<"placed">>,
                                     <<"CUM_SUM(placed)", "TIME_SINCE(placed)">> >>],
        ignored_entities |-> <<>>,
        precalculated |-> <<"orders", "CUM_SUM(placed)">>],
       [features |-> <<"placed", "mystery">>,
        ordered_entities |-> <<"orders">>,
        ordered_feature_groups |->
            [e \in {"orders"} |-> << <<"placed">>, <<"mystery">> >>],
        ignored_entities |-> <<>>,
        precalculated |-> <<>>],
       [features |-> <<"orders.placed", "CUM_SUM(amount)">>,
        ordered_entities |-> <<"orders", "order_items">>,
        ordered_feature_groups |->
            [e \in {"orders", "order_items"} |->
                IF e = "orders" THEN << <<"placed">> >>
                ELSE << <<"amount">>, <<"orders.placed">>, <<"CUM_SUM(amount)">> >>],
        ignored_entities |-> <<>>,
        precalculated |-> <<"order_items", "orders.placed">>],
       [features |-> <<"orders.COUNT(order_items)">>,
        ordered_entities |-> <<"orders", "order_items">>,
        ordered_feature_groups |->
            [e \in {"orders", "order_items"} |->
                IF e = "orders" THEN << <<"item_id">>, <<"COUNT(order_items)">> >>
                ELSE << <<"orders.COUNT(order_items)">> >>],
        ignored_entities |-> <<"order_items">>,
        precalculated |-> <<"orders", "COUNT(order_items)">>],
       [features |-> <<"COUNT(order_items)">>,
        ordered_entities |-> <<"orders">>,
        ordered_feature_groups |->
            [e \in {"orders"} |-> << <<"item_id">>, <<"COUNT(order_items)">> >>],
        ignored_entities |-> <<>>,
        precalculated |-> <<"order_items", "CUM_SUM(amount)">>] >>

\* features[0].entity.id
TargetEid == Feature(features[1]).entity

\* the request made of the features
RequestOf(fs) == CHOOSE r \in Range(Requests) : r.features = fs

\* the features that read the flag column, and those that carry a window
WhereFeatures ==
    {"SUM(order_items.amount WHERE flag)", "SUM(order_items.amount WHERE flag, Last N)"}

WindowFeatures ==
    {"SUM(order_items.amount WHERE flag, Last N)", "SUM(order_items.amount, Previous D)"}

\* ------------------------------------------------------------ calculators
\* what a calculator leaves: the working set of frames, the features whose
\* function it invoked, and the exception it raised ("" when none)
Result(entity_frames, called, error) ==
    [frames |-> entity_frames, invoked |-> called, error |-> error]

\* set_default_column(frame, f): the column f holds f's default in every row
\* (an iterable default is repeated once per row, a scalar one is broadcast)
set_default_column(frame, f) ==
    SetColumn(frame, f, [i \in DOMAIN frame.rows |-> Feature(f).default_value])

\* PandasBackend._calculate_identity_features
_calculate_identity_features(group, entity_frames) ==
    LET entity_id == Feature(group[1]).entity
    IN  IF entity_id \in DOMAIN entity_frames
           /\ group[1] \in Range(entity_frames[entity_id].columns)
        THEN Result(entity_frames, {}, "")
        ELSE Result(entity_frames, {}, "AssertionError")

\* the transform loop without the "continue" of its no-data branch: on a
\* frame of zero rows the function is applied all the same
RECURSIVE TransformLoopNoContinue(_, _, _, _)
TransformLoopNoContinue(group, i, acc, time_last) ==
    IF i > Len(group) THEN acc
    ELSE LET f == group[i]
             frame == IF Len(acc.frame.rows) = 0
                      THEN set_default_column(acc.frame, f) ELSE acc.frame
             variable_data == [j \in DOMAIN Feature(f).base_features |->
                                 ColumnValues(frame, Feature(f).base_features[j])]
             values == ApplyTransform(Feature(f).func, variable_data,
                                      IF Feature(f).uses_calc_time THEN time_last ELSE 0)
         IN  TransformLoopNoContinue(group, i + 1,
                                     [frame |-> SetColumn(frame, f, values),
                                      invoked |-> acc.invoked \cup {f}], time_last)

\* the loop of _calculate_transform_features over the features of the group,
\* from feature i on: acc is [frame, invoked]
RECURSIVE TransformLoop(_, _, _, _)
TransformLoop(group, i, acc, time_last) ==
    IF i > Len(group) THEN acc
    ELSE LET f == group[i]
             frame == acc.frame
             variable_data == [j \in DOMAIN Feature(f).base_features |->
                                 ColumnValues(frame, Feature(f).base_features[j])]
             values == ApplyTransform(Feature(f).func, variable_data,
                                      IF Feature(f).uses_calc_time THEN time_last ELSE 0)
         IN  IF Len(frame.rows) = 0
             THEN TransformLoop(group, i + 1,
                                [frame |-> set_default_column(frame, f),
                                 invoked |-> acc.invoked], time_last)
             ELSE TransformLoop(group, i + 1,
                                [frame |-> SetColumn(frame, f, values),
                                 invoked |-> acc.invoked \cup {f}], time_last)

\* PandasBackend._calculate_transform_features
_calculate_transform_features(group, entity_frames, time_last) ==
    LET entity_id == Feature(group[1]).entity
    IN  IF Cardinality({Feature(group[i]).entity : i \in DOMAIN group}) # 1
           \/ entity_id \notin DOMAIN entity_frames
        THEN Result(entity_frames, {}, "AssertionError")
        ELSE LET done == TransformLoop(group, 1,
                             [frame |-> entity_frames[entity_id], invoked |-> {}],
                             time_last)
             IN  Result([entity_frames EXCEPT ![entity_id] = done.frame],
                        done.invoked, "")

\* the parent slice of _calculate_direct_features: parent_df[col_map.keys()]
\* renamed by col_map and indexed by the join key
DirectMergeFrame(group, parent_df, child_df, merge_var, parent_var) ==
    LET \* the features not yet on the child table
        todo == SelectSeq(group, LAMBDA f : f \notin Range(child_df.columns))
        named == {i \in DOMAIN group : Feature(group[i]).base_features[1] = parent_var}
        index_as_feature ==
            IF named = {} THEN ""
            ELSE group[CHOOSE i \in named : \A j \in named : j <= i]
        bases == [i \in DOMAIN todo |-> Feature(todo[i]).base_features[1]]
        keys == <<parent_var>> \o SelectSeq(bases, LAMBDA b : b # parent_var)
        col_map(k) ==
            IF k \in Range(bases)
            THEN todo[CHOOSE i \in DOMAIN todo :
                        /\ bases[i] = k
                        /\ \A j \in DOMAIN todo : bases[j] = k => j <= i]
            ELSE merge_var
        renamed == [i \in DOMAIN keys |-> col_map(keys[i])]
        key_column == IF index_as_feature # "" THEN index_as_feature ELSE merge_var
        kept == IF index_as_feature # "" THEN renamed
                ELSE SelectSeq(renamed, LAMBDA n : n # merge_var)
    IN  IF \E i \in DOMAIN keys : keys[i] \notin Range(parent_df.columns)
        THEN [error |-> "KeyError", frame |-> None]
        ELSE IF key_column \notin Range(renamed)
        THEN [error |-> "KeyError", frame |-> None]
        ELSE [error |-> "",
              frame |->
                [columns |-> kept,
                 rows |-> [r \in DOMAIN parent_df.rows |->
                    LET cells == [i \in DOMAIN keys |-> parent_df.rows[r].c[keys[i]]]
                        at(n) == cells[CHOOSE i \in DOMAIN keys : renamed[i] = n]
                    IN  [idx |-> at(key_column),
                         c |-> [n \in Range(kept) |-> at(n)]]]]]

\* PandasBackend._calculate_direct_features
_calculate_direct_features(group, entity_frames) ==
    LET entity_id == Feature(group[1]).entity
        parent_entity_id == Feature(group[1]).parent_entity
        path == find_forward_path(entity_id, parent_entity_id)
    IN  IF entity_id \notin DOMAIN entity_frames
           \/ parent_entity_id \notin DOMAIN entity_frames
           \/ Len(path) # 1
        THEN Result(entity_frames, {}, "AssertionError")
        ELSE LET parent_df == entity_frames[parent_entity_id]
                 child_df == entity_frames[entity_id]
                 merge_var == path[1].child_variable
                 merge_df == DirectMergeFrame(group, parent_df, child_df, merge_var,
                                              path[1].parent_variable)
             IN  IF merge_df.error # ""
                 THEN Result(entity_frames, {}, merge_df.error)
                 ELSE Result([entity_frames EXCEPT ![entity_id] =
                                 pd_merge(child_df, merge_df.frame, merge_var, "left")],
                             {}, "")

\* _can_agg(feature): one base feature besides the where feature, no calc
\* time, not expanding
_can_agg(f) ==
    LET base_features ==
            IF Feature(f).where # ""
            THEN SelectSeq(Feature(f).base_features, LAMBDA bf : bf # Feature(f).where)
            ELSE Feature(f).base_features
    IN  IF Feature(f).uses_calc_time THEN FALSE
        ELSE Len(base_features) = 1 /\ ~Feature(f).expanding

\* check_no_related_instances(array1, array2)
check_no_related_instances(array1, array2) ==
    LET set_frame == Range(array1)
        set_base_frame == Range(array2)
        some_instances == \E s \in set_frame : \E b \in set_base_frame : s = b
    IN  ~some_instances

\* the values of the link column, ascending: the keys of groupby(groupby_var)
GroupKeys(rows, groupby_var) ==
    SortedSeq({rows[i].c[groupby_var] : i \in DOMAIN rows})

\* the rows of one group, in existing row order
GroupRows(rows, groupby_var, key) ==
    SelectSeq(rows, LAMBDA r : r.c[groupby_var] = key)

\* base_frame.groupby(groupby_var).apply(last_n), from group i on
RECURSIVE LastNPerGroup(_, _, _, _, _)
LastNPerGroup(rows, groupby_var, keys, i, n) ==
    IF i > Len(keys) THEN <<>>
    ELSE iloc_last(GroupRows(rows, groupby_var, keys[i]), n)
         \o LastNPerGroup(rows, groupby_var, keys, i + 1, n)

\* lines 321-323: the where clause
where_filter(base_frame, where) ==
    IF where # ""
    THEN [base_frame EXCEPT !.rows = SelectSeq(base_frame.rows, LAMBDA r : r.c[where] = 1)]
    ELSE base_frame

\* lines 330-346: the use_previous window, on the where-filtered child rows
use_previous_filter(base_frame, use_previous, groupby_var, child_entity_id, time_last) ==
    IF use_previous.unit # "none" /\ base_frame.rows # <<>>
    THEN IF use_previous.unit = "absolute"
         THEN LET time_first == time_last - use_previous.value
                  ti == EntityTimeIndex(child_entity_id)
              IN  IF ti # ""
                  THEN [base_frame EXCEPT !.rows =
                           SelectSeq(base_frame.rows, LAMBDA r : r.c[ti] >= time_first)]
                  ELSE base_frame
         ELSE LET n == use_previous.value
              IN  [base_frame EXCEPT !.rows =
                       LastNPerGroup(base_frame.rows, groupby_var,
                                     GroupKeys(base_frame.rows, groupby_var), 1, n)]
    ELSE base_frame

\* lines 359-361: column.astype(object); pandas raises ValueError for a column
\* it cannot convert, and gives the same values as objects otherwise
astype_object(dtype) == IF dtype = "unconvertible" THEN "ValueError" ELSE "object"

\* lines 348-370 with the last branch (equal dtypes, line 369-370) left out:
\* no branch assigns the flag there
no_instances_flag_no_else(frame, base_frame, index_var, groupby_var, entity_id, child_entity_id) ==
    IF base_frame.rows # <<>>
    THEN IF groupby_var \notin Range(base_frame.columns)
         THEN "True"
         ELSE IF DType(entity_id, index_var) # DType(child_entity_id, groupby_var)
                 \/ DType(entity_id, index_var) = "category"
         THEN IF "ValueError" \in {astype_object(DType(entity_id, index_var)),
                                   astype_object(DType(child_entity_id, groupby_var))}
              THEN "ValueError"
              ELSE IF check_no_related_instances(ColumnValues(frame, index_var),
                                                 ColumnValues(base_frame, groupby_var))
                   THEN "True" ELSE "False"
         ELSE "unassigned"
    ELSE "unassigned"

\* lines 348-370: the flag no_instances; "unassigned" when no branch sets it,
\* "ValueError" when the join-type-mismatch error of lines 361-366 is raised
no_instances_flag(frame, base_frame, index_var, groupby_var, entity_id, child_entity_id) ==
    IF base_frame.rows # <<>>
    THEN IF groupby_var \notin Range(base_frame.columns)
         THEN "True"
         ELSE IF DType(entity_id, index_var) # DType(child_entity_id, groupby_var)
                 \/ DType(entity_id, index_var) = "category"
         THEN IF "ValueError" \in {astype_object(DType(entity_id, index_var)),
                                   astype_object(DType(child_entity_id, groupby_var))}
              THEN "ValueError"
              \* both columns as objects: the values compare as before
              ELSE IF check_no_related_instances(ColumnValues(frame, index_var),
                                                 ColumnValues(base_frame, groupby_var))
                   THEN "True" ELSE "False"
         ELSE IF check_no_related_instances(ColumnValues(frame, index_var),
                                            ColumnValues(base_frame, groupby_var))
              THEN "True" ELSE "False"
    ELSE "unassigned"

\* agg_wrapper(to_apply, time_last) applied to each group: one row per group
\* key holding func(*columns of the group) for every feature of to_apply
agg_wrapper(to_apply, base_frame, groupby_var, time_last) ==
    LET keys == GroupKeys(base_frame.rows, groupby_var)
        value(f, rows) ==
            ApplyAggregation(Feature(f).func,
                [j \in DOMAIN Feature(f).base_features |->
                    [i \in DOMAIN rows |-> rows[i].c[Feature(f).base_features[j]]]],
                IF Feature(f).uses_calc_time THEN time_last ELSE 0)
    IN  [columns |-> to_apply,
         rows |-> [k \in DOMAIN keys |->
                     [idx |-> keys[k],
                      c |-> [f \in Range(to_apply) |->
                               value(f, GroupRows(base_frame.rows, groupby_var, keys[k]))]]]]

\* base_frame.groupby(groupby_var).agg(to_agg), renamed to the feature names:
\* one row per group key holding func(first base column of the group)
groupby_agg(to_agg, base_frame, groupby_var) ==
    LET keys == GroupKeys(base_frame.rows, groupby_var)
        value(f, rows) ==
            ApplyAggregation(Feature(f).func,
                << [i \in DOMAIN rows |-> rows[i].c[Feature(f).base_features[1]]] >>, 0)
    IN  [columns |-> to_agg,
         rows |-> [k \in DOMAIN keys |->
                     [idx |-> keys[k],
                      c |-> [f \in Range(to_agg) |->
                               value(f, GroupRows(base_frame.rows, groupby_var, keys[k]))]]]]

\* the loop of set_default_column over the features (lines 373-374)
RECURSIVE SetDefaultColumns(_, _, _)
SetDefaultColumns(frame, feats, i) ==
    IF i > Len(feats) THEN frame
    ELSE SetDefaultColumns(set_default_column(frame, feats[i]), feats, i + 1)

\* fill_defaults left out: the merged frame keeps its null cells
fill_defaults_skipped(frame, feats) == frame

\* lines 443-455: the null cells of the features' columns get the default
fill_defaults(frame, feats) ==
    [frame EXCEPT !.rows =
        [i \in DOMAIN frame.rows |->
            [frame.rows[i] EXCEPT !.c =
                [k \in DOMAIN frame.rows[i].c |->
                    IF k \in Range(feats) /\ frame.rows[i].c[k] = NaN
                    THEN Feature(k).default_value
                    ELSE frame.rows[i].c[k]]]]]

\* lines 378-464: aggregate per group, merge onto the parent, fill the defaults
aggregate_and_merge(feats, frame, base_frame, index_var, groupby_var, time_last) ==
    LET to_agg == SelectSeq(feats, LAMBDA f : _can_agg(f))
        to_apply == SelectSeq(feats, LAMBDA f : ~_can_agg(f))
        applied ==
            IF Len(to_apply) > 0
            THEN pd_merge(frame, agg_wrapper(to_apply, base_frame, groupby_var, time_last),
                          index_var, "left")
            ELSE frame
        merged ==
            IF Len(to_agg) > 0
            THEN pd_merge(applied, groupby_agg(to_agg, base_frame, groupby_var),
                          index_var, "left")
            ELSE applied
    IN  fill_defaults(merged, feats)

\* PandasBackend._calculate_agg_features
_calculate_agg_features(group, entity_frames, time_last) ==
    LET test_feature == Feature(group[1])
        entity_id == test_feature.entity
        child_entity_id == Feature(test_feature.base_features[1]).entity
    IN  IF entity_id \notin DOMAIN entity_frames
           \/ child_entity_id \notin DOMAIN entity_frames
        THEN Result(entity_frames, {}, "AssertionError")
        ELSE
        LET index_var == EntityIndex(entity_id)
            frame == entity_frames[entity_id]
            \* the features whose column is not on the frame yet
            feats == SelectSeq(group, LAMBDA f : f \notin Range(frame.columns))
            groupby_var ==
                get_link_variable_name(find_backward_path(entity_id, child_entity_id))
            base_frame ==
                use_previous_filter(where_filter(entity_frames[child_entity_id],
                                                 test_feature.where),
                                    test_feature.use_previous, groupby_var,
                                    child_entity_id, time_last)
            no_instances == no_instances_flag(frame, base_frame, index_var, groupby_var,
                                              entity_id, child_entity_id)
        IN  IF Len(feats) = 0
            THEN Result(entity_frames, {}, "")
            \* lines 361-366: the join-type-mismatch error
            ELSE IF no_instances = "ValueError"
            THEN Result(entity_frames, {}, "ValueError")
            \* line 372: the flag is read only when base_frame is not empty, and
            \* reading a name no branch assigned raises UnboundLocalError
            ELSE IF base_frame.rows # <<>> /\ no_instances = "unassigned"
            THEN Result(entity_frames, {}, "UnboundLocalError")
            ELSE IF base_frame.rows = <<>> \/ no_instances = "True"
            THEN Result([entity_frames EXCEPT ![entity_id] =
                            SetDefaultColumns(frame, feats, 1)], {}, "")
            ELSE Result([entity_frames EXCEPT ![entity_id] =
                            aggregate_and_merge(feats, frame, base_frame, index_var,
                                                groupby_var, time_last)],
                        Range(feats), "")

\* _feature_type_handler without its last branch: a feature of no known kind
\* falls through to the last calculator instead of raising UnknownFeature
_feature_type_handler_fallthrough(f) ==
    IF Feature(f).kind = "Transform" THEN "_calculate_transform_features"
    ELSE IF Feature(f).kind = "Direct" THEN "_calculate_direct_features"
    ELSE IF Feature(f).kind = "Aggregation" THEN "_calculate_agg_features"
    ELSE "_calculate_identity_features"

\* PandasBackend._feature_type_handler: the calculator of a feature's kind
_feature_type_handler(f) ==
    IF Feature(f).kind = "Transform" THEN "_calculate_transform_features"
    ELSE IF Feature(f).kind = "Direct" THEN "_calculate_direct_features"
    ELSE IF Feature(f).kind = "Aggregation" THEN "_calculate_agg_features"
    ELSE IF Feature(f).kind = "Identity" THEN "_calculate_identity_features"
    ELSE "UnknownFeature"

\* handler(group, entity_frames)
CallHandler(handler, group, entity_frames, time_last) ==
    CASE handler = "_calculate_transform_features" ->
            _calculate_transform_features(group, entity_frames, time_last)
      [] handler = "_calculate_direct_features" ->
            _calculate_direct_features(group, entity_frames)
      [] handler = "_calculate_agg_features" ->
            _calculate_agg_features(group, entity_frames, time_last)
      [] handler = "_calculate_identity_features" ->
            _calculate_identity_features(group, entity_frames)
      [] OTHER -> Result(entity_frames, {}, handler)

\* ----------------------------------------------------------- orchestrator
\* generate_default_df with every cell unset instead of the features' defaults
generate_default_df_unset(ids, extra_columns) ==
    LET extra == SelectSeq(extra_columns, LAMBDA col : col \notin Range(features))
    IN  [columns |-> features \o extra,
         rows |-> [i \in DOMAIN ids |->
                     [idx |-> ids[i],
                      c |-> [k \in Range(features) \cup Range(extra) |-> NaN]]]]

\* PandasBackend.generate_default_df(instance_ids, extra_columns)
generate_default_df(ids, extra_columns) ==
    LET default_cols == features
        extra == SelectSeq(extra_columns, LAMBDA col : col \notin Range(default_cols))
    IN  [columns |-> default_cols \o extra,
         rows |-> [i \in DOMAIN ids |->
                     [idx |-> ids[i],
                      c |-> [k \in Range(default_cols) \cup Range(extra) |->
                               IF k \in Range(default_cols)
                               THEN Feature(k).default_value ELSE NaN]]]]

\* df.append(other): the rows of df, then those of other, over the union of
\* the columns; a cell of a column the frame did not have is unset
df_append(df, other) ==
    LET cols == df.columns
                \o SelectSeq(other.columns, LAMBDA col : col \notin Range(df.columns))
        widen(row) == [idx |-> row.idx,
                       c |-> [k \in Range(cols) |->
                                IF k \in DOMAIN row.c THEN row.c[k] ELSE NaN]]
    IN  [columns |-> cols,
         rows |-> [i \in DOMAIN df.rows |-> widen(df.rows[i])]
                  \o [i \in DOMAIN other.rows |-> widen(other.rows[i])]]

\* df[names]: the named columns, in the order named
select_columns(df, names) ==
    [columns |-> names,
     rows |-> [i \in DOMAIN df.rows |->
                 [idx |-> df.rows[i].idx,
                  c |-> [k \in Range(names) |-> df.rows[i].c[k]]]]]

\* the target frame without the rows of defaults for the missing ids
final_frame_no_backfill(df, ids) == df

\* lines 187-195: the target frame, rows of defaults appended for the
\* requested ids that are no index label of it
final_frame(df, ids) ==
    LET missing_ids == SelectSeq(ids, LAMBDA i : i \notin IndexLabels(df))
    IN  IF missing_ids # <<>>
        THEN df_append(df, generate_default_df(missing_ids, df.columns))
        ELSE df

\* lines 110-125, one entity of precalculated_features: acc is
\* [eframes, finished]
merge_precalculated(acc, entity_id, precalc_feature_values) ==
    IF entity_id \in DOMAIN acc.eframes
    THEN [eframes |->
            [acc.eframes EXCEPT ![entity_id][entity_id] =
                pd_merge(acc.eframes[entity_id][entity_id], precalc_feature_values,
                         "", "inner")],
          finished |-> acc.finished]
    ELSE [eframes |->
            (entity_id :>
                (entity_id :>
                    SetColumn(precalc_feature_values, EntityIndex(entity_id),
                              [i \in DOMAIN precalc_feature_values.rows |->
                                  precalc_feature_values.rows[i].idx])))
            @@ acc.eframes,
          finished |-> Append(acc.finished, entity_id)]

AllEntities == <<"orders", "order_items">>

\* the loop of lines 111-125 over precalculated_features.items()
RECURSIVE MergePrecalculatedLoop(_, _, _)
MergePrecalculatedLoop(acc, precalc, i) ==
    IF i > Len(AllEntities) THEN acc
    ELSE IF AllEntities[i] \in DOMAIN precalc
    THEN MergePrecalculatedLoop(
             merge_precalculated(acc, AllEntities[i], precalc[AllEntities[i]]),
             precalc, i + 1)
    ELSE MergePrecalculatedLoop(acc, precalc, i + 1)

\* the working set without the test of line 150: the frame of every finished
\* entity is copied in, a descendant's too
RECURSIVE working_set_all_finished(_, _, _, _)
working_set_all_finished(entity_frames, eframes, filter_eid, finished) ==
    IF finished = <<>> THEN entity_frames
    ELSE LET eid == Head(finished)
         IN  working_set_all_finished((eid :> eframes[eid][eid]) @@ entity_frames,
                                      eframes, filter_eid, Tail(finished))

\* lines 141-152: the working set of filter_eid, with the frames of the
\* finished entities that filter_eid does not reach backward
RECURSIVE working_set(_, _, _, _)
working_set(entity_frames, eframes, filter_eid, finished) ==
    IF finished = <<>> THEN entity_frames
    ELSE LET eid == Head(finished)
         IN  IF find_backward_path(filter_eid, eid) = <<>>
             THEN working_set((eid :> eframes[eid][eid]) @@ entity_frames,
                              eframes, filter_eid, Tail(finished))
             ELSE working_set(entity_frames, eframes, filter_eid, Tail(finished))

\* ------------------------------------------------------------------ inputs
\* the instance ids of an entity
InstanceUniverse(entity_id) ==
    IF entity_id = "orders" THEN 1..MaxOrders ELSE 1..MaxItems

\* the tables of order_items: up to MaxItems rows, each linked to an order;
\* the flag is set on every row (phase 2), on the odd rows (phase 1) or on
\* the even rows (phase 0)
ItemTables(phases) ==
    UNION {{[k \in 1..n |-> [order_id |-> links[k],
                             flag |-> IF phase = 2 THEN 1 ELSE (k + phase + 1) % 2]] :
               links \in [1..n -> 1..MaxOrders], phase \in phases} :
           n \in 0..MaxItems}

\* the entity sets a request is made on: the orders 1..k are present
EntitySets(request) ==
    [orders : {1..k : k \in 0..MaxOrders},
     items : ItemTables(IF Range(request.features) \cap WhereFeatures # {}
                        THEN {0, 1} ELSE {2}),
     link_dtype : IF "orders.COUNT(order_items)" \in Range(request.features)
                  THEN {"int64", "object", "unconvertible"} ELSE {"int64"}]

\* a table of precalculated values of one feature, for the ids 1..n
PrecalculatedTable(feature, n) ==
    [columns |-> <<feature>>,
     rows |-> [i \in 1..n |-> [idx |-> i, c |-> [k \in {feature} |-> PrecalcValue]]]]

\* the precalculated_features a request can be called with: none, the values
\* of one feature for the first id, or for every id
PrecalculatedOptions(request) ==
    {EmptyDict} \cup
    IF request.precalculated = <<>> THEN {}
    ELSE {[e \in {request.precalculated[1]} |->
              PrecalculatedTable(request.precalculated[2], n)] :
          n \in {1, Cardinality(InstanceUniverse(request.precalculated[1]))}}

\* the precondition of line 74 left out
instance_ids_unchecked(ids) == TRUE

\* line 74: assert len(instance_ids) > 0
instance_ids_given(ids) == Cardinality(ids) > 0

Init ==
    \E q \in DOMAIN Requests :
        /\ features = Requests[q].features
        /\ feature_tree = [ordered_entities |-> Requests[q].ordered_entities,
                           ordered_feature_groups |-> Requests[q].ordered_feature_groups]
        /\ entityset \in EntitySets(Requests[q])
        /\ window \in (IF Range(Requests[q].features) \cap WindowFeatures # {}
                       THEN 0..MaxWindow ELSE {0})
        /\ pc = "ready"
        /\ instance_ids = <<>>
        /\ precalculated_features = EmptyDict
        /\ ordered_entities = <<>>
        /\ eframes_by_filter = EmptyDict
        /\ finished_entity_ids = <<>>
        /\ filter_i = 0
        /\ group_i = 0
        /\ returned = None
        /\ raised = ""
        /\ slice_calls = 0
        /\ handlers = <<>>
        /\ invoked = {}

\* calculate_all_features, lines 74-106: the precondition, the slice, and the
\* all-default result when the slice-provider reports no data
CalculateAllFeatures ==
    /\ pc = "ready"
    /\ \E ids \in SUBSET InstanceUniverse(TargetEid),
          precalc \in PrecalculatedOptions(RequestOf(features)),
          ignored \in {FALSE} \cup {RequestOf(features).ignored_entities # <<>>},
          no_data \in BOOLEAN :
        IF ~instance_ids_given(ids)
        THEN /\ raised' = "AssertionError"
             /\ pc' = "raised"
             /\ UNCHANGED <<instance_ids, precalculated_features, ordered_entities,
                            eframes_by_filter, slice_calls, returned>>
        ELSE /\ instance_ids' = SortedSeq(ids)
             /\ precalculated_features' = precalc
             /\ ordered_entities' = IF ignored THEN RequestOf(features).ignored_entities
                                    ELSE feature_tree.ordered_entities
             /\ slice_calls' = slice_calls + 1
             /\ raised' = raised
             /\ IF no_data
                THEN /\ eframes_by_filter' = None
                     /\ returned' = generate_default_df(SortedSeq(ids), <<>>)
                     /\ pc' = "returned"
                ELSE /\ eframes_by_filter' =
                            get_pandas_data_slice(ordered_entities', TargetEid,
                                                  SortedSeq(ids))
                     /\ pc' = "merge_precalculated"
                     /\ UNCHANGED returned
    /\ UNCHANGED <<entityset, features, feature_tree, window, finished_entity_ids,
                   filter_i, group_i, handlers, invoked>>

\* calculate_all_features, lines 108-125: the precalculated features
MergePrecalculated ==
    /\ pc = "merge_precalculated"
    /\ LET merged == MergePrecalculatedLoop(
                         [eframes |-> eframes_by_filter, finished |-> <<>>],
                         precalculated_features, 1)
       IN  /\ eframes_by_filter' = merged.eframes
           /\ finished_entity_ids' = merged.finished
    /\ filter_i' = 1
    /\ pc' = "entity"
    /\ UNCHANGED <<entityset, features, feature_tree, window, instance_ids,
                   precalculated_features, ordered_entities, group_i, returned,
                   raised, slice_calls, handlers, invoked>>

\* the feature groups of the entity the loop is at (line 154)
CurrentGroups ==
    IF ordered_entities[filter_i] \in DOMAIN feature_tree.ordered_feature_groups
    THEN feature_tree.ordered_feature_groups[ordered_entities[filter_i]]
    ELSE <<>>

\* calculate_all_features, lines 140-152: the working set of the next entity
BeginEntity ==
    /\ pc = "entity"
    /\ LET filter_eid == ordered_entities[filter_i]
       IN  eframes_by_filter' =
               [eframes_by_filter EXCEPT ![filter_eid] =
                   working_set(eframes_by_filter[filter_eid], eframes_by_filter,
                               filter_eid, finished_entity_ids)]
    /\ group_i' = 1
    /\ pc' = "groups"
    /\ UNCHANGED <<entityset, features, feature_tree, window, instance_ids,
                   precalculated_features, ordered_entities, finished_entity_ids,
                   filter_i, returned, raised, slice_calls, handlers, invoked>>

\* calculate_all_features, lines 155-161: one feature group through the
\* dispatcher and its calculator
DispatchGroup ==
    /\ pc = "groups"
    /\ group_i <= Len(CurrentGroups)
    /\ LET filter_eid == ordered_entities[filter_i]
           group == CurrentGroups[group_i]
           handler == _feature_type_handler(group[1])
           done == CallHandler(handler, group, eframes_by_filter[filter_eid], TimeLast)
       IN  IF handler = "UnknownFeature"
           THEN /\ raised' = "UnknownFeature"
                /\ pc' = "raised"
                /\ UNCHANGED <<eframes_by_filter, handlers, invoked, group_i>>
           ELSE /\ handlers' = Append(handlers, handler)
                /\ invoked' = invoked \cup done.invoked
                /\ IF done.error # ""
                   THEN /\ raised' = done.error
                        /\ pc' = "raised"
                        /\ UNCHANGED <<eframes_by_filter, group_i>>
                   ELSE /\ eframes_by_filter' =
                               [eframes_by_filter EXCEPT ![filter_eid] = done.frames]
                        /\ group_i' = group_i + 1
                        /\ UNCHANGED <<raised, pc>>
    /\ UNCHANGED <<entityset, features, feature_tree, window, instance_ids,
                   precalculated_features, ordered_entities, finished_entity_ids,
                   filter_i, returned, slice_calls>>

\* calculate_all_features, line 166: the entity is finished
FinishEntity ==
    /\ pc = "groups"
    /\ group_i > Len(CurrentGroups)
    /\ finished_entity_ids' = Append(finished_entity_ids, ordered_entities[filter_i])
    /\ filter_i' = filter_i + 1
    /\ pc' = IF filter_i < Len(ordered_entities) THEN "entity" ELSE "finalize"
    /\ UNCHANGED <<entityset, features, feature_tree, window, instance_ids,
                   precalculated_features, ordered_entities, eframes_by_filter,
                   group_i, returned, raised, slice_calls, handlers, invoked>>

\* calculate_all_features, lines 187-195: the result table
ReturnFrame ==
    /\ pc = "finalize"
    /\ LET df == final_frame(eframes_by_filter[TargetEid][TargetEid], instance_ids)
       IN  IF \A i \in DOMAIN features : features[i] \in Range(df.columns)
           THEN /\ returned' = select_columns(df, features)
                /\ pc' = "returned"
                /\ UNCHANGED raised
           ELSE /\ raised' = "KeyError"
                /\ pc' = "raised"
                /\ UNCHANGED returned
    /\ UNCHANGED <<entityset, features, feature_tree, window, instance_ids,
                   precalculated_features, ordered_entities, eframes_by_filter,
                   finished_entity_ids, filter_i, group_i, slice_calls, handlers,
                   invoked>>

Next ==
    \/ CalculateAllFeatures
    \/ MergePrecalculated
    \/ BeginEntity
    \/ DispatchGroup
    \/ FinishEntity
    \/ ReturnFrame

Spec == Init /\ [][Next]_vars

\* ------------------------------------------------------------------ claims
\* the calculator named handler has just run for the group before group_i
LastDispatched(handler) ==
    /\ pc = "groups"
    /\ group_i > 1
    /\ _feature_type_handler(CurrentGroups[group_i - 1][1]) = handler

\* the group the last calculator ran for, and the working set it left
LastGroup == CurrentGroups[group_i - 1]

WorkingSet == eframes_by_filter[ordered_entities[filter_i]]

\* the columns precalculated_features holds for an entity
PrecalculatedColumns(entity_id) ==
    IF entity_id \in DOMAIN precalculated_features
    THEN Range(precalculated_features[entity_id].columns)
    ELSE {}

\* the slice-provider returned frames (not None) and the call went on
SliceHasData == slice_calls = 1 /\ eframes_by_filter # None

\* the frame of the target entity as the slice-provider returned it
RawTargetFrame ==
    get_pandas_data_slice(ordered_entities, TargetEid, instance_ids)[TargetEid][TargetEid]

\* C1: for every non-empty batch and every outcome of the slice-provider, the
\* table calculate_all_features returns has exactly one row per requested
\* instance id and exactly the requested feature columns, in the requested
\* order.
C1_OneRowPerInstance ==
    pc = "returned" =>
        /\ returned.columns = features
        /\ Len(returned.rows) = Len(instance_ids)
        /\ IndexLabels(returned) = Range(instance_ids)
        /\ \A i \in DOMAIN returned.rows : DOMAIN returned.rows[i].c = Range(features)

\* C1 witness: a table is returned for a batch of which the slice held data
\* for some ids and none for others
C1_Witness ==
    /\ pc = "returned"
    /\ SliceHasData
    /\ Len(RawTargetFrame.rows) > 0
    /\ Len(RawTargetFrame.rows) < Len(instance_ids)

\* C2: when the slice-provider returns None no calculator runs, and the table
\* returned holds, for every requested id and every requested feature, the
\* feature's declared default value.
C2_NoDataAllDefaults ==
    eframes_by_filter = None =>
        /\ pc = "returned"
        /\ handlers = <<>>
        /\ invoked = {}
        /\ returned.columns = features
        /\ Len(returned.rows) = Len(instance_ids)
        /\ \A id \in Range(instance_ids) :
              \E i \in DOMAIN returned.rows :
                 /\ returned.rows[i].idx = id
                 /\ \A f \in Range(features) :
                       returned.rows[i].c[f] = Feature(f).default_value

\* C2 witness: the all-default table of a feature whose default is not NaN,
\* for two ids
C2_Witness ==
    /\ eframes_by_filter = None
    /\ pc = "returned"
    /\ Len(instance_ids) >= 2
    /\ \E f \in Range(features) : Feature(f).default_value # NaN

\* C8: a call with zero instance ids fails with the precondition violation
\* before any computation: no slice is asked for, no calculator is
\* dispatched, nothing is returned.
C8_EmptyBatchRejected ==
    (pc # "ready" /\ instance_ids = <<>>) =>
        /\ pc = "raised"
        /\ raised = "AssertionError"
        /\ slice_calls = 0
        /\ handlers = <<>>
        /\ invoked = {}
        /\ returned = None
        /\ eframes_by_filter = EmptyDict

\* C8 witness: the call with zero ids has been made
C8_Witness == pc = "raised" /\ instance_ids = <<>> /\ raised = "AssertionError"

\* the calculator the dispatcher is to give for a kind of feature
KindCalculator(kind) ==
    CASE kind = "Transform" -> "_calculate_transform_features"
      [] kind = "Direct" -> "_calculate_direct_features"
      [] kind = "Aggregation" -> "_calculate_agg_features"
      [] kind = "Identity" -> "_calculate_identity_features"
      [] OTHER -> "UnknownFeature"

\* the groups of an entity in the feature tree
GroupsOf(entity_id) ==
    IF entity_id \in DOMAIN feature_tree.ordered_feature_groups
    THEN feature_tree.ordered_feature_groups[entity_id]
    ELSE <<>>

\* the groups of the first n entities of the loop, in order
RECURSIVE GroupsThrough(_)
GroupsThrough(n) ==
    IF n = 0 THEN <<>>
    ELSE GroupsThrough(n - 1) \o GroupsOf(ordered_entities[n])

\* the groups the loop has dispatched: those of the entities before
\* filter_i, and of the entity at filter_i the first k
Dispatched(k) ==
    IF filter_i > Len(ordered_entities) THEN GroupsThrough(Len(ordered_entities))
    ELSE GroupsThrough(filter_i - 1) \o SubSeq(CurrentGroups, 1, k)

\* C9: the dispatcher gives each of the four kinds its own calculator and
\* fails with UnknownFeature for any other kind; every group of the loop goes
\* through it, so the calculators run are those of the groups' kinds in
\* order, and a group of an unknown kind ends the call with UnknownFeature
\* and without a result.
C9_DispatchByKind ==
    /\ pc \in {"groups", "finalize"} \/ (pc = "returned" /\ SliceHasData) =>
          LET done == Dispatched(group_i - 1)
          IN  /\ Len(handlers) = Len(done)
              /\ \A i \in DOMAIN done :
                    /\ Feature(done[i][1]).kind \in
                          {"Transform", "Direct", "Aggregation", "Identity"}
                    /\ handlers[i] = KindCalculator(Feature(done[i][1]).kind)
    /\ (pc = "raised" /\ filter_i >= 1 /\ filter_i <= Len(ordered_entities)) =>
          LET done == Dispatched(group_i - 1)
              kind == Feature(CurrentGroups[group_i][1]).kind
          IN  /\ \A i \in DOMAIN done :
                    handlers[i] = KindCalculator(Feature(done[i][1]).kind)
              /\ IF kind \in {"Transform", "Direct", "Aggregation", "Identity"}
                 THEN /\ raised # "UnknownFeature"
                      /\ handlers = Append([i \in DOMAIN done |-> handlers[i]],
                                           KindCalculator(kind))
                 ELSE /\ raised = "UnknownFeature"
                      /\ Len(handlers) = Len(done)
              /\ returned = None
    /\ raised = "UnknownFeature" => (pc = "raised" /\ returned = None)

\* C9 witness: a group of an unknown kind has been reached after a group of a
\* known kind was dispatched
C9_Witness ==
    /\ pc = "raised"
    /\ raised = "UnknownFeature"
    /\ handlers = <<"_calculate_identity_features">>

\* the Direct group the last calculator ran for: its child and parent frames
\* in the working set, and the hop that links them
DirectChild == Feature(LastGroup[1]).entity

DirectParent == Feature(LastGroup[1]).parent_entity

\* C3: after the DirectCalculator has run for a group, every child row holds,
\* for each feature of the group, the value of the parent row its foreign key
\* references, and a child row whose foreign key matches no parent row holds
\* the feature's declared default value.
C3_DirectValueOrDefault ==
    (LastDispatched("_calculate_direct_features")
     /\ PrecalculatedColumns(DirectChild) = {}) =>
        LET hop == find_forward_path(DirectChild, DirectParent)[1]
            child_df == WorkingSet[DirectChild]
            parent_df == WorkingSet[DirectParent]
        IN  \A f \in Range(LastGroup) :
               /\ f \in Range(child_df.columns)
               /\ \A i \in DOMAIN child_df.rows :
                     LET fk == child_df.rows[i].c[hop.child_variable]
                         parents == {j \in DOMAIN parent_df.rows :
                                        parent_df.rows[j].c[hop.parent_variable] = fk}
                     IN  IF parents = {}
                         THEN child_df.rows[i].c[f] = Feature(f).default_value
                         ELSE \A j \in parents :
                                 child_df.rows[i].c[f] =
                                     parent_df.rows[j].c[Feature(f).base_features[1]]

\* the Aggregation group the last calculator ran for: its parent and child
\* entities, the link column, and the features that were not precalculated
AggParent == Feature(LastGroup[1]).entity

AggChild == Feature(Feature(LastGroup[1]).base_features[1]).entity

AggLink == get_link_variable_name(find_backward_path(AggParent, AggChild))

AggFeatures == Range(LastGroup) \ PrecalculatedColumns(AggParent)

\* the value of an aggregation feature over a sequence of child rows
AggregateOver(f, rows) ==
    ApplyAggregation(Feature(f).func,
        [j \in DOMAIN Feature(f).base_features |->
            [i \in DOMAIN rows |-> rows[i].c[Feature(f).base_features[j]]]],
        IF Feature(f).uses_calc_time THEN TimeLast ELSE 0)

\* the child rows that remain after the where and use_previous filters
AggRemaining ==
    use_previous_filter(where_filter(WorkingSet[AggChild], Feature(LastGroup[1]).where),
                        Feature(LastGroup[1]).use_previous, AggLink, AggChild,
                        TimeLast).rows

\* C4: after the AggregationCalculator has finished for a group, no cell of
\* the group's columns on the parent table is unset: a parent row with child
\* rows remaining after the where and use_previous filters holds the
\* function's value over exactly those rows, and a parent row with none
\* (also when the child table is empty or no child row relates to any parent
\* row) holds the feature's declared default value.
C4_AggregationFillsEveryCell ==
    LastDispatched("_calculate_agg_features") =>
        LET frame == WorkingSet[AggParent]
        IN  \A f \in AggFeatures :
               /\ f \in Range(frame.columns)
               /\ \A i \in DOMAIN frame.rows :
                     LET mine == GroupRows(AggRemaining, AggLink,
                                           frame.rows[i].c[EntityIndex(AggParent)])
                     IN  /\ frame.rows[i].c[f] =
                               IF mine # <<>> THEN AggregateOver(f, mine)
                               ELSE Feature(f).default_value
                         /\ Feature(f).default_value # NaN => frame.rows[i].c[f] # NaN

\* C4 witness: the calculator has run on a parent table of two rows, one with
\* child rows remaining and one with none
C4_Witness ==
    /\ LastDispatched("_calculate_agg_features")
    /\ AggFeatures # {}
    /\ LET frame == WorkingSet[AggParent]
       IN  /\ \E i \in DOMAIN frame.rows :
                 GroupRows(AggRemaining, AggLink,
                           frame.rows[i].c[EntityIndex(AggParent)]) # <<>>
           /\ \E i \in DOMAIN frame.rows :
                 GroupRows(AggRemaining, AggLink,
                           frame.rows[i].c[EntityIndex(AggParent)]) = <<>>

\* the last n rows of a sequence of rows, all of them when there are fewer
LastRows(rows, n) ==
    SubSeq(rows, Len(rows) - (IF n < Len(rows) THEN n ELSE Len(rows)) + 1, Len(rows))

\* C5: with a count-based use_previous window of N (N >= 0) and a non-empty
\* child table, the rows aggregated for each parent are the last N rows (all
\* of them when there are fewer), in existing row order, of that parent's
\* group of child rows taken after the where filter; a parent with no rows
\* gets the default.
C5_CountWindowLastN ==
    (LastDispatched("_calculate_agg_features")
     /\ Feature(LastGroup[1]).use_previous.unit = "observations"
     /\ WorkingSet[AggChild].rows # <<>>) =>
        LET frame == WorkingSet[AggParent]
            where == Feature(LastGroup[1]).where
            filtered == SelectSeq(WorkingSet[AggChild].rows,
                                  LAMBDA r : where # "" => r.c[where] = 1)
        IN  \A f \in AggFeatures :
               \A i \in DOMAIN frame.rows :
                  LET mine == GroupRows(filtered, AggLink,
                                        frame.rows[i].c[EntityIndex(AggParent)])
                      used == LastRows(mine, Feature(f).use_previous.value)
                  IN  frame.rows[i].c[f] =
                          IF used # <<>> THEN AggregateOver(f, used)
                          ELSE Feature(f).default_value

\* C6: when precalculated columns of a feature are merged into an entity's
\* table and the feature is then requested, the run does not invoke the
\* feature's function again and the value in the result is the injected one,
\* for a Transform, a Direct and an Aggregation feature alike.
C6_PrecalculatedNotRecomputed ==
    (pc = "returned" /\ SliceHasData) =>
        \A e \in DOMAIN precalculated_features :
           e \in Range(ordered_entities) =>
              \A f \in Range(precalculated_features[e].columns) :
                 /\ f \notin invoked
                 /\ f \in Range(features) =>
                       \A i \in DOMAIN returned.rows :
                          returned.rows[i].idx \in
                              IndexLabels(RawTargetFrame)
                              \cap IndexLabels(precalculated_features[e])
                          => returned.rows[i].c[f] = PrecalcValue

\* C7: after the TransformCalculator has run for a group, the column of every
\* feature of the group holds, at row i, element i of the function over the
\* base columns of the owning table in its existing row order; the row count
\* and the other columns are unchanged; on a table of zero rows the function
\* is not invoked, the column is created, and nothing is raised.
C7_TransformRowAligned ==
    [][ (/\ pc = "groups"
         /\ group_i <= Len(CurrentGroups)
         /\ _feature_type_handler(CurrentGroups[group_i][1])
               = "_calculate_transform_features") =>
            LET group == CurrentGroups[group_i]
                pre == WorkingSet[Feature(group[1]).entity]
                post == eframes_by_filter'[ordered_entities[filter_i]]
                                          [Feature(group[1]).entity]
                others == Range(pre.columns) \ Range(group)
            IN  /\ raised' = ""
                /\ Len(post.rows) = Len(pre.rows)
                /\ Range(post.columns) = Range(pre.columns) \cup Range(group)
                /\ \A i \in DOMAIN pre.rows :
                      /\ post.rows[i].idx = pre.rows[i].idx
                      /\ \A col \in others : post.rows[i].c[col] = pre.rows[i].c[col]
                      /\ \A f \in Range(group) :
                            post.rows[i].c[f] =
                                ApplyTransform(Feature(f).func,
                                    [j \in DOMAIN Feature(f).base_features |->
                                        ColumnValues(pre, Feature(f).base_features[j])],
                                    IF Feature(f).uses_calc_time THEN TimeLast ELSE 0)[i]
                /\ IF Len(pre.rows) = 0 THEN invoked' = invoked
                   ELSE invoked' = invoked \cup Range(group)
      ]_vars

\* C7 witness: the calculator has run on a table of two rows or more
C7_Witness ==
    /\ LastDispatched("_calculate_transform_features")
    /\ Len(WorkingSet[Feature(LastGroup[1]).entity].rows) >= 2
    /\ Range(LastGroup) \subseteq invoked

\* C10: the merge of precalculated columns into an entity table that exists
\* is a left join on the entity index: every row of the table is retained,
\* and a row without a precalculated counterpart keeps its columns, with the
\* precalculated columns unset.
C10_PrecalculatedLeftJoin ==
    [][ pc = "merge_precalculated" =>
            \A e \in DOMAIN precalculated_features \cap DOMAIN eframes_by_filter :
               LET pre == eframes_by_filter[e][e]
                   post == eframes_by_filter'[e][e]
                   values == precalculated_features[e]
               IN  /\ Len(post.rows) = Len(pre.rows)
                   /\ \A i \in DOMAIN pre.rows :
                         /\ post.rows[i].idx = pre.rows[i].idx
                         /\ \A col \in Range(pre.columns) :
                               post.rows[i].c[col] = pre.rows[i].c[col]
                         /\ pre.rows[i].idx \notin IndexLabels(values) =>
                               \A col \in Range(values.columns) :
                                  post.rows[i].c[col] = NaN
      ]_vars

\* the Aggregation group the dispatcher is about to run the calculator for
AggDispatchNext ==
    /\ pc = "groups"
    /\ group_i <= Len(CurrentGroups)
    /\ _feature_type_handler(CurrentGroups[group_i][1]) = "_calculate_agg_features"

\* C12: in the AggregationCalculator the flag no_instances is never read
\* before it is assigned: when the default-fill decision is reached, either
\* the child table is empty (defaults are filled without reading the flag) or
\* a branch for the non-empty child table has assigned the flag or raised the
\* join-type-mismatch error; the flag assigned by comparison is true exactly
\* when the parent index values and the child link values have no element in
\* common, and the defaults are then filled without any function invoked.
C12_NoInstancesAssignedBeforeRead ==
    [][ AggDispatchNext =>
            LET group == CurrentGroups[group_i]
                parent == Feature(group[1]).entity
                child == Feature(Feature(group[1]).base_features[1]).entity
                index == EntityIndex(parent)
                link == get_link_variable_name(find_backward_path(parent, child))
                frame == WorkingSet[parent]
                post == eframes_by_filter'[ordered_entities[filter_i]][parent]
                feats == Range(group) \ Range(frame.columns)
                remaining ==
                    use_previous_filter(where_filter(WorkingSet[child],
                                                     Feature(group[1]).where),
                                        Feature(group[1]).use_previous, link, child,
                                        TimeLast)
                common == Range(ColumnValues(frame, index))
                              \cap Range(ColumnValues(remaining, link))
                mismatch == DType(parent, index) # DType(child, link)
                defaults == \A f \in feats : \A i \in DOMAIN post.rows :
                               post.rows[i].c[f] = Feature(f).default_value
            IN  /\ raised' # "UnboundLocalError"
                /\ raised' = "ValueError" =>
                      (feats # {} /\ remaining.rows # <<>> /\ mismatch)
                /\ (feats # {} /\ remaining.rows = <<>>) =>
                      (raised' = "" /\ defaults /\ invoked' = invoked)
                /\ (feats # {} /\ remaining.rows # <<>> /\ raised' # "ValueError") =>
                      /\ raised' = ""
                      /\ common = {} => (defaults /\ invoked' = invoked)
                      /\ common # {} => (feats \subseteq invoked' /\ feats \cap invoked = {})
      ]_vars

\* C12 witness: the calculator has run on a non-empty child table none of
\* whose rows relates to a row of the non-empty parent table, so the flag was
\* assigned by the comparison and read
C12_Witness ==
    /\ LastDispatched("_calculate_agg_features")
    /\ AggFeatures # {}
    /\ AggRemaining # <<>>
    /\ WorkingSet[AggParent].rows # <<>>
    /\ Range(ColumnValues(WorkingSet[AggParent], EntityIndex(AggParent)))
           \cap {AggRemaining[i].c[AggLink] : i \in DOMAIN AggRemaining} = {}
    /\ AggFeatures \cap invoked = {}

\* C11: at the start of processing entity E, for every finished entity F, F's
\* finished table is placed in E's working set if and only if there is no
\* backward path from E to F (the table of a descendant of E is never copied:
\* the working set keeps what it held for F); and E is marked finished only
\* after all of its feature groups have been dispatched.
C11_WorkingSetExcludesDescendants ==
    [][ /\ pc = "entity" =>
              LET E == ordered_entities[filter_i]
                  pre == eframes_by_filter[E]
                  post == eframes_by_filter'[E]
              IN  /\ \A F \in Range(finished_entity_ids) :
                        IF find_backward_path(E, F) = <<>>
                        THEN F \in DOMAIN post /\ post[F] = eframes_by_filter[F][F]
                        ELSE /\ F \in DOMAIN post <=> F \in DOMAIN pre
                             /\ F \in DOMAIN pre => post[F] = pre[F]
                  /\ \A G \in DOMAIN post \ Range(finished_entity_ids) :
                        G \in DOMAIN pre /\ post[G] = pre[G]
        /\ (pc \in {"entity", "groups"}
            /\ finished_entity_ids' # finished_entity_ids) =>
              /\ pc = "groups"
              /\ group_i = Len(GroupsOf(ordered_entities[filter_i])) + 1
              /\ Len(handlers) = Len(GroupsThrough(filter_i))
              /\ finished_entity_ids' =
                     Append(finished_entity_ids, ordered_entities[filter_i])
      ]_vars

\* C11 witness: the loop has started on an entity with a finished descendant
\* whose finished table differs from the one the working set holds, and with
\* feature groups to dispatch
C11_Witness ==
    /\ pc = "groups"
    /\ group_i = 1
    /\ CurrentGroups # <<>>
    /\ \E F \in Range(finished_entity_ids) :
          /\ find_backward_path(ordered_entities[filter_i], F) # <<>>
          /\ F \in DOMAIN WorkingSet
          /\ WorkingSet[F] # eframes_by_filter[F][F]

====
